---- MODULE Spec2Model ----
(***************************************************************************)
(* A model of SOLID.ts: the video game stores of the single-responsibility *)
(* example (VideoGameStore, VideoGameStoreGetter, BetterVideoGameStore,    *)
(* VideoGameStoreWithMovies) and the dependency-inversion example          *)
(* (Gentleman, CorrectGentleman and the students).                         *)
(*                                                                         *)
(* Arrays are objects of a heap and are held by reference, as in the       *)
(* source: the store's field and the caller's variable name the same       *)
(* array.  Texts are tuples of characters, so that the comparison of two   *)
(* names is computed character by character.                               *)
(***************************************************************************)
EXTENDS Integers, Sequences, FiniteSets, TLC

\* ------------------------------------------------------------------ bounds
\* Longest array of video games the caller builds.
MaxLen == 2
\* Release dates range over 1993 .. 1993 + MaxYear.
MaxYear == 1
\* Most lines the console keeps (dependency-inversion example).
MaxConsole == 5
\* Most changes the caller makes to its own array after construction.
MaxMods == 1

\* ------------------------------------------------------------------ values
Doom == <<"D", "o", "o", "m">>
DoomII == <<"D", "o", "o", "m", " ", "I", "I">>
doomLower == <<"d", "o", "o", "m">>

\* Names of the games the caller builds, and the names it asks for.
GameNames == {Doom, DoomII}
NameArgs == {Doom, DoomII, doomLower}
Years == {1993 + k : k \in 0..MaxYear}
\* The ages asked for: every release date, one below and one above.
Ages == {1992 + k : k \in 0..(MaxYear + 2)}

\* ------------------------------------------------------------------ VideoGame
VideoGame(name, releaseDate) == [name |-> name, releaseDate |-> releaseDate]
getName(v) == v.name
getReleaseDate(v) == v.releaseDate

VideoGames == {VideoGame(n, y) : n \in GameNames, y \in Years}

RECURSIVE SeqsUpTo(_, _)
SeqsUpTo(S, n) ==
  IF n = 0 THEN {<<>>}
  ELSE LET shorter == SeqsUpTo(S, n - 1)
       IN shorter \cup {Append(s, x) : s \in {t \in shorter : Len(t) = n - 1}, x \in S}

\* Every array of video games the caller may build.
Collections == SeqsUpTo(VideoGames, MaxLen)

\* A comparison that accepts a name which only starts with the text asked for.
StringStrictEquals_prefix(a, b) ==
  /\ Len(a) >= Len(b)
  /\ \A i \in 1..Len(b) : a[i] = b[i]

\* a === b on two texts: same length and the same character at each place.
StringStrictEquals(a, b) ==
  /\ Len(a) = Len(b)
  /\ \A i \in 1..Len(a) : a[i] = b[i]

\* ------------------------------------------------------------------ outcomes
\* What a call leaves with the caller: nothing yet, a returned array, or an
\* error thrown.
NoResult == [status |-> "none", value |-> <<>>]
Returned(s) == [status |-> "returned", value |-> s]
Threw == [status |-> "threw", value |-> <<>>]

\* The heap's arrays: the caller's array of games, and one more, empty array.
ArrRefs == {"games", "other"}

VARIABLES
  heap,       \* array reference -> contents
  inst,       \* the instances: store, getter, better, withMovies
  probe,      \* the argument the caller queries with: an age or a name
  res,        \* res[receiver][query]: the outcome of the latest call
  again,      \* TRUE once some query was called again after it had returned
  built,      \* the caller's array as it was when the store was constructed
  mods,       \* number of changes the caller made to its array since
  passed,     \* the class of the student handed to CorrectGentleman
  gentleman,  \* the CorrectGentleman instance
  oldGentleman, \* the Gentleman instance
  console     \* the lines written by console.log, each with its writer

storeVars == <<heap, inst, probe, res, again, built, mods>>
diVars == <<passed, gentleman, oldGentleman, console>>
vars == <<heap, inst, probe, res, again, built, mods, passed, gentleman, oldGentleman, console>>

\* ------------------------------------------------------------------ VideoGameStore
\* The constructor keeps the reference it is given (this.videoGames = videoGames).
VideoGameStore_constructor(videoGames) ==
  [class |-> "VideoGameStore", videoGames |-> videoGames]

\* Variants of the store's methods, each with one slip: a comparison that
\* also accepts later years, a filter done in place, a threshold that is
\* included, a result built back to front, an error thrown when nothing is
\* found, a query that takes what it returns out of the array.
VideoGameStore_getAllGamesByAge_loose(this, h, age) ==
  [out |-> Returned(SelectSeq(h[this.videoGames], LAMBDA v : getReleaseDate(v) >= age)),
   heap |-> h]

VideoGameStore_getAllGamesByAge_inPlace(this, h, age) ==
  LET kept == SelectSeq(h[this.videoGames], LAMBDA v : getReleaseDate(v) = age)
  IN [out |-> Returned(kept), heap |-> [h EXCEPT ![this.videoGames] = kept]]

VideoGameStore_getAllGamesOlderThanAge_inclusive(this, h, age) ==
  [out |-> Returned(SelectSeq(h[this.videoGames], LAMBDA v : getReleaseDate(v) <= age)),
   heap |-> h]

VideoGameStore_getAllGamesOlderThanAge_draining(this, h, age) ==
  [out |-> Returned(SelectSeq(h[this.videoGames], LAMBDA v : getReleaseDate(v) < age)),
   heap |-> [h EXCEPT ![this.videoGames] =
               SelectSeq(@, LAMBDA v : ~(getReleaseDate(v) < age))]]

VideoGameStore_getAllGamesNewerThanAge_reversed(this, h, age) ==
  LET kept == SelectSeq(h[this.videoGames], LAMBDA v : getReleaseDate(v) > age)
  IN [out |-> Returned([k \in 1..Len(kept) |-> kept[Len(kept) + 1 - k]]), heap |-> h]

VideoGameStore_getAllGamesByName_throwing(this, h, name) ==
  LET kept == SelectSeq(h[this.videoGames],
                        LAMBDA v : StringStrictEquals(getName(v), name))
  IN [out |-> IF kept = <<>> THEN Threw ELSE Returned(kept), heap |-> h]

\* Each method gives the outcome of the call and the heap it leaves:
\* Array.prototype.filter builds a new array and leaves its receiver alone.
VideoGameStore_getAllGamesByAge(this, h, age) ==
  [out |-> Returned(SelectSeq(h[this.videoGames], LAMBDA v : getReleaseDate(v) = age)),
   heap |-> h]

VideoGameStore_getAllGamesByName(this, h, name) ==
  [out |-> Returned(SelectSeq(h[this.videoGames],
                              LAMBDA v : StringStrictEquals(getName(v), name))),
   heap |-> h]

VideoGameStore_getAllGamesOlderThanAge(this, h, age) ==
  [out |-> Returned(SelectSeq(h[this.videoGames], LAMBDA v : getReleaseDate(v) < age)),
   heap |-> h]

VideoGameStore_getAllGamesNewerThanAge(this, h, age) ==
  [out |-> Returned(SelectSeq(h[this.videoGames], LAMBDA v : getReleaseDate(v) > age)),
   heap |-> h]

\* ------------------------------------------------------------------ VideoGameStoreGetter
VideoGameStoreGetter_constructor == [class |-> "VideoGameStoreGetter"]

\* A variant that filters the instance's own array when it has one.
VideoGameStoreGetter_getAllGamesNewerThanAge_ownField(this, h, collection, age) ==
  LET own == IF "videoGames" \in DOMAIN this THEN this.videoGames ELSE collection
  IN [out |-> Returned(SelectSeq(h[own], LAMBDA v : getReleaseDate(v) > age)),
      heap |-> h]

\* The methods filter the array named by their parameter; `this` is not read.
VideoGameStoreGetter_getAllGamesByAge(this, h, collection, age) ==
  [out |-> Returned(SelectSeq(h[collection], LAMBDA v : getReleaseDate(v) = age)),
   heap |-> h]

VideoGameStoreGetter_getAllGamesByName(this, h, collection, name) ==
  [out |-> Returned(SelectSeq(h[collection],
                              LAMBDA v : StringStrictEquals(getName(v), name))),
   heap |-> h]

VideoGameStoreGetter_getAllGamesOlderThanAge(this, h, collection, age) ==
  [out |-> Returned(SelectSeq(h[collection], LAMBDA v : getReleaseDate(v) < age)),
   heap |-> h]

VideoGameStoreGetter_getAllGamesNewerThanAge(this, h, collection, age) ==
  [out |-> Returned(SelectSeq(h[collection], LAMBDA v : getReleaseDate(v) > age)),
   heap |-> h]

\* super() and then this.videoGames = videoGames.
BetterVideoGameStore_constructor(videoGames) ==
  [class |-> "BetterVideoGameStore", videoGames |-> videoGames]

Movie(name, category) == [name |-> name, category |-> category]

\* super(videoGames) and then this.movies = movies.
VideoGameStoreWithMovies_constructor(videoGames, movies) ==
  [class |-> "VideoGameStoreWithMovies", videoGames |-> videoGames, movies |-> movies]

\* ------------------------------------------------------------------ students
Student_constructor == [class |-> "Student"]
CorrectJavascriptStudent_constructor == [class |-> "CorrectJavascriptStudent"]
JavascriptStudent_constructor == [class |-> "JavascriptStudent"]

Student_learn == "I'm learning"
CorrectJavascriptStudent_learn == "I'm learning Javascript"
JavascriptStudent_learnJavascript == "I'm learning Javascript"

\* student.learn(): the method of the object's own class.
learn(student) ==
  IF student.class = "CorrectJavascriptStudent"
  THEN CorrectJavascriptStudent_learn
  ELSE Student_learn

\* this.student = new JavascriptStudent()
Gentleman_constructor(name) ==
  [name |-> name, student |-> JavascriptStudent_constructor]

\* this.name = name; this.student = new Student(): the parameter is not used.
CorrectGentleman_constructor(name, student) ==
  [name |-> name, student |-> Student_constructor]

StudentClasses == {"Student", "CorrectJavascriptStudent"}
NewStudent(class) ==
  IF class = "CorrectJavascriptStudent"
  THEN CorrectJavascriptStudent_constructor
  ELSE Student_constructor
TeacherNames == {"Alan", "Ada"}

\* ------------------------------------------------------------------ initial states
Receivers == {"store", "getter"}
Queries == {"byAge", "byName", "olderThan", "newerThan"}
GetterInstances == {"getter", "better", "withMovies"}

Probes == {[kind |-> "age", age |-> a] : a \in Ages}
            \cup {[kind |-> "name", name |-> n] : n \in NameArgs}

\* The caller has built its array, constructed the four instances (the two
\* refactored stores with its array or with another, empty one) and chosen
\* the argument it will ask for.
InitStores ==
  /\ \E c \in Collections : heap = [games |-> c, other |-> <<>>]
  /\ \E own \in ArrRefs :
       inst = [store |-> VideoGameStore_constructor("games"),
               getter |-> VideoGameStoreGetter_constructor,
               better |-> BetterVideoGameStore_constructor(own),
               withMovies |-> VideoGameStoreWithMovies_constructor(
                                own, <<Movie("Alien", "horror")>>)]
  /\ probe \in Probes
  /\ res = [r \in Receivers |-> [q \in Queries |-> NoResult]]
  /\ again = FALSE
  /\ built = heap[inst.store.videoGames]
  /\ mods = 0

\* const gentleman = new CorrectGentleman(name, student), and a Gentleman.
InitTeachers ==
  /\ passed \in StudentClasses
  /\ \E n \in TeacherNames :
       /\ gentleman = CorrectGentleman_constructor(n, NewStudent(passed))
       /\ oldGentleman = Gentleman_constructor(n)
  /\ console = <<>>

\* The program as written: CorrectGentleman("Alan", studentJavascript).
ProgramTeachers ==
  /\ passed = "CorrectJavascriptStudent"
  /\ gentleman = CorrectGentleman_constructor("Alan", NewStudent(passed))
  /\ oldGentleman = Gentleman_constructor("Alan")
  /\ console = <<>>

\* No games and one argument: the stores while the teachers are looked at.
IdleStores ==
  /\ heap = [games |-> <<>>, other |-> <<>>]
  /\ inst = [store |-> VideoGameStore_constructor("games"),
             getter |-> VideoGameStoreGetter_constructor,
             better |-> BetterVideoGameStore_constructor("games"),
             withMovies |-> VideoGameStoreWithMovies_constructor("games", <<>>)]
  /\ probe = [kind |-> "age", age |-> 1993]
  /\ res = [r \in Receivers |-> [q \in Queries |-> NoResult]]
  /\ again = FALSE
  /\ built = <<>>
  /\ mods = 0

Init == InitStores /\ ProgramTeachers
InitDI == IdleStores /\ InitTeachers

\* ------------------------------------------------------------------ calls
\* The caller receives outcome r.out of query q on receiver recv; the heap is
\* as the method left it.
Deliver(recv, q, r) ==
  /\ res' = [res EXCEPT ![recv][q] = r.out]
  /\ heap' = r.heap
  /\ again' = (again \/ res[recv][q].status # "none")
  /\ UNCHANGED <<inst, probe, built, mods, diVars>>

getAllGamesByAge ==
  /\ probe.kind = "age"
  /\ Deliver("store", "byAge",
             VideoGameStore_getAllGamesByAge(inst.store, heap, probe.age))

getAllGamesByName ==
  /\ probe.kind = "name"
  /\ Deliver("store", "byName",
             VideoGameStore_getAllGamesByName(inst.store, heap, probe.name))

getAllGamesOlderThanAge ==
  /\ probe.kind = "age"
  /\ Deliver("store", "olderThan",
             VideoGameStore_getAllGamesOlderThanAge(inst.store, heap, probe.age))

getAllGamesNewerThanAge ==
  /\ probe.kind = "age"
  /\ Deliver("store", "newerThan",
             VideoGameStore_getAllGamesNewerThanAge(inst.store, heap, probe.age))

\* The refactored queries, called on instance g with the caller's array.
Getter_getAllGamesByAge(g) ==
  /\ probe.kind = "age"
  /\ Deliver("getter", "byAge",
             VideoGameStoreGetter_getAllGamesByAge(inst[g], heap, "games", probe.age))

Getter_getAllGamesByName(g) ==
  /\ probe.kind = "name"
  /\ Deliver("getter", "byName",
             VideoGameStoreGetter_getAllGamesByName(inst[g], heap, "games", probe.name))

Getter_getAllGamesOlderThanAge(g) ==
  /\ probe.kind = "age"
  /\ Deliver("getter", "olderThan",
             VideoGameStoreGetter_getAllGamesOlderThanAge(inst[g], heap, "games", probe.age))

Getter_getAllGamesNewerThanAge(g) ==
  /\ probe.kind = "age"
  /\ Deliver("getter", "newerThan",
             VideoGameStoreGetter_getAllGamesNewerThanAge(inst[g], heap, "games", probe.age))

\* ------------------------------------------------------------------ the caller's array
\* The caller still holds the array it passed to the constructor, and
\* changes it: games.push(v), games.pop(), games[i] = v.
CallerPush(v) ==
  /\ mods < MaxMods
  /\ Len(heap.games) < MaxLen
  /\ heap' = [heap EXCEPT !.games = Append(@, v)]
  /\ mods' = mods + 1
  /\ UNCHANGED <<inst, probe, res, again, built, diVars>>

CallerPop ==
  /\ mods < MaxMods
  /\ Len(heap.games) > 0
  /\ heap' = [heap EXCEPT !.games = SubSeq(@, 1, Len(@) - 1)]
  /\ mods' = mods + 1
  /\ UNCHANGED <<inst, probe, res, again, built, diVars>>

CallerAssign(i, v) ==
  /\ mods < MaxMods
  /\ i \in DOMAIN heap.games
  /\ heap.games[i] # v
  /\ heap' = [heap EXCEPT !.games[i] = v]
  /\ mods' = mods + 1
  /\ UNCHANGED <<inst, probe, res, again, built, diVars>>

\* ------------------------------------------------------------------ teaching
\* teach(): this.student.learn(), which writes one line.
teach ==
  /\ Len(console) < MaxConsole
  /\ console' = Append(console, [by |-> "teach", text |-> learn(gentleman.student)])
  /\ UNCHANGED <<passed, gentleman, oldGentleman, storeVars>>

\* teachJavascript(): this.student.learnJavascript().
teachJavascript ==
  /\ Len(console) < MaxConsole
  /\ console' = Append(console, [by |-> "teachJavascript",
                                 text |-> JavascriptStudent_learnJavascript])
  /\ UNCHANGED <<passed, gentleman, oldGentleman, storeVars>>

\* ------------------------------------------------------------------ specifications
StoreCalls ==
  \/ getAllGamesByAge
  \/ getAllGamesByName
  \/ getAllGamesOlderThanAge
  \/ getAllGamesNewerThanAge

GetterCalls ==
  \/ \E g \in GetterInstances : Getter_getAllGamesByAge(g)
  \/ \E g \in GetterInstances : Getter_getAllGamesByName(g)
  \/ \E g \in GetterInstances : Getter_getAllGamesOlderThanAge(g)
  \/ \E g \in GetterInstances : Getter_getAllGamesNewerThanAge(g)

CallerChanges ==
  \/ \E v \in VideoGames : CallerPush(v)
  \/ CallerPop
  \/ \E i \in 1..MaxLen, v \in VideoGames : CallerAssign(i, v)

\* The stores and their queries.
Next == StoreCalls \/ GetterCalls
Spec == Init /\ [][Next]_vars

\* The original store, with a caller that goes on using its array.
NextAlias == StoreCalls \/ CallerChanges
SpecAlias == Init /\ [][NextAlias]_vars

\* The teachers.
NextDI == teach \/ teachJavascript
SpecDI == InitDI /\ [][NextDI]_vars

\* ------------------------------------------------------------------ vocabulary of the properties
\* The array the store was constructed with, as it is now.
StoreGames == heap[inst.store.videoGames]

\* Number of places of s that hold v.
Count(s, v) == Cardinality({i \in DOMAIN s : s[i] = v})

\* out holds, for each place of S, the record of c at that place: once per
\* place, the places in increasing order.
IsSelection(out, c, S) ==
  /\ Len(out) = Cardinality(S)
  /\ \A i \in S : out[Cardinality({j \in S : j <= i})] = c[i]

\* The record v answers query q for the caller's argument.
Wanted(q, v) ==
  CASE q = "byAge" -> v.releaseDate = probe.age
    [] q = "byName" -> v.name = probe.name
    [] q = "olderThan" -> v.releaseDate < probe.age
    [] q = "newerThan" -> v.releaseDate > probe.age

\* The places of array c whose record answers query q.
WantedPlaces(q, c) == {i \in DOMAIN c : Wanted(q, c[i])}

\* Some call has been made in this step.
CallStep == res' # res \/ again' # again

\* ------------------------------------------------------------------ C1
\* C1: getAllGamesByAge(m) returns only records released in m, and every
\* place of the collection whose record was released in m gives exactly one
\* entry of the result, the entries in the order of the collection.
C1_ByAgeExact ==
  LET r == res.store.byAge
  IN r.status # "none" =>
       /\ r.status = "returned"
       /\ \A k \in DOMAIN r.value : r.value[k].releaseDate = probe.age
       /\ IsSelection(r.value, StoreGames,
                      {i \in DOMAIN StoreGames : StoreGames[i].releaseDate = probe.age})

\* The collection holds the same record twice, released in the year asked
\* for, and both are returned.
C1_Witness ==
  /\ res.store.byAge.status = "returned"
  /\ Len(res.store.byAge.value) = 2
  /\ res.store.byAge.value[1] = res.store.byAge.value[2]

\* ------------------------------------------------------------------ C2
\* C2: for one threshold t the results of getAllGamesOlderThanAge(t),
\* getAllGamesByAge(t) and getAllGamesNewerThanAge(t) split the collection:
\* the older ones are all released before t, the equal ones in t, the newer
\* ones after t, each record of the collection is in one of the three as
\* often as it is in the collection, and in no two of them.
C2_Partition ==
  LET o == res.store.olderThan
      e == res.store.byAge
      n == res.store.newerThan
  IN (o.status = "returned" /\ e.status = "returned" /\ n.status = "returned") =>
       /\ \A k \in DOMAIN o.value : o.value[k].releaseDate < probe.age
       /\ \A k \in DOMAIN e.value : e.value[k].releaseDate = probe.age
       /\ \A k \in DOMAIN n.value : n.value[k].releaseDate > probe.age
       /\ Len(o.value) + Len(e.value) + Len(n.value) = Len(StoreGames)
       /\ \A v \in VideoGames :
            /\ Count(o.value, v) + Count(e.value, v) + Count(n.value, v)
                 = Count(StoreGames, v)
            /\ Cardinality({x \in {o, e, n} : Count(x.value, v) > 0}) <= 1

\* The three queries have returned, and two of the three parts are not empty.
C2_Witness ==
  /\ res.store.olderThan.status = "returned"
  /\ res.store.byAge.status = "returned"
  /\ res.store.newerThan.status = "returned"
  /\ Len(res.store.byAge.value) = 1
  /\ Len(res.store.olderThan.value) + Len(res.store.newerThan.value) = 1

\* ------------------------------------------------------------------ C3
\* C3: a call of any of the queries leaves the store's collection as it was:
\* the store names the same array, and the array holds the same records at
\* the same places; no array and no instance is changed.
C3_QueriesDoNotMutate ==
  [][CallStep => (heap' = heap /\ inst' = inst /\ StoreGames' = StoreGames)]_vars

\* Every query of the store has returned, on a collection that is not empty.
C3_Witness ==
  /\ StoreGames # <<>>
  /\ res.store.byAge.status = "returned"
  /\ res.store.olderThan.status = "returned"
  /\ res.store.newerThan.status = "returned"
  /\ res.getter.byAge.status = "returned"
  /\ StoreGames = built

\* ------------------------------------------------------------------ C4
\* C4: the result of each query, of the store and of the refactored class,
\* is made of places of the collection taken in increasing order, and a
\* record that answers the query, or is in the result, is in the result as
\* often as in the collection.
C4_StableSubsequence ==
  \A recv \in Receivers, q \in Queries :
    LET r == res[recv][q]
    IN r.status # "none" =>
         /\ \E S \in SUBSET (DOMAIN StoreGames) : IsSelection(r.value, StoreGames, S)
         /\ \A v \in VideoGames :
              (Wanted(q, v) \/ Count(r.value, v) > 0)
                => Count(r.value, v) = Count(StoreGames, v)

\* A result that keeps two different records, the later release first as in
\* the collection.
C4_Witness ==
  \E recv \in Receivers, q \in Queries :
    LET r == res[recv][q]
    IN /\ r.status = "returned"
       /\ Len(r.value) = 2
       /\ r.value[1] # r.value[2]
       /\ r.value[1].releaseDate > r.value[2].releaseDate

\* ------------------------------------------------------------------ C5
\* C5: getAllGamesByName(n) returns the records whose name is n, one per
\* place, in the order of the collection, and no record of another name.
C5_ByNameExact ==
  LET r == res.store.byName
  IN r.status # "none" =>
       /\ r.status = "returned"
       /\ \A k \in DOMAIN r.value : r.value[k].name = probe.name
       /\ IsSelection(r.value, StoreGames,
                      {i \in DOMAIN StoreGames : StoreGames[i].name = probe.name})

\* "Doom" is asked for in a collection that holds "Doom" and "Doom II".
C5_Witness ==
  /\ probe.kind = "name"
  /\ probe.name = Doom
  /\ res.store.byName.status = "returned"
  /\ Len(res.store.byName.value) = 1
  /\ \E i \in DOMAIN StoreGames : StoreGames[i].name = DoomII

\* ------------------------------------------------------------------ C6
\* C6: what a query of the store returns is decided by its argument and by
\* the records the array held when the store was constructed, whatever the
\* caller did to the array since.
C6_FixedAtConstruction ==
  \A q \in Queries :
    res.store[q].status # "none" =>
      /\ res.store[q].status = "returned"
      /\ IsSelection(res.store[q].value, built, WantedPlaces(q, built))

\* ------------------------------------------------------------------ C7
\* C7: no query throws; each call returns an array, and the array is empty
\* when the collection is empty or holds no record that answers the query.
C7_Total ==
  \A recv \in Receivers, q \in Queries :
    LET r == res[recv][q]
    IN r.status # "none" =>
         /\ r.status = "returned"
         /\ WantedPlaces(q, StoreGames) = {} => r.value = <<>>

\* A query has returned on the empty collection.
C7_WitnessEmpty ==
  /\ StoreGames = <<>>
  /\ res.store.byName.status = "returned"
  /\ res.store.byName.value = <<>>

\* ------------------------------------------------------------------ C8
\* C8: a query called again with the same argument, other queries having
\* been called in between or not, returns what it returned before.
C8_Idempotent ==
  [][\A recv \in Receivers, q \in Queries :
       res[recv][q].status # "none" => res'[recv][q] = res[recv][q]]_vars

\* Some query has been called again after it had returned; the store's
\* three queries by age have returned, the older-than one with records.
C8_Witness ==
  /\ again
  /\ res.store.olderThan.status = "returned"
  /\ res.store.olderThan.value # <<>>
  /\ res.store.byAge.status = "returned"
  /\ res.store.newerThan.status = "returned"

\* ------------------------------------------------------------------ C9
\* C9: every line that teach() writes is the line of learn() of the student
\* that was handed to the constructor.
C9_TeachesInjectedStudent ==
  \A i \in DOMAIN console :
    console[i].by = "teach" => console[i].text = learn(NewStudent(passed))

\* ------------------------------------------------------------------ C10
\* C10: a query of the refactored class, called with the array the original
\* store was constructed with, returns what the same query of the original
\* store returns for the same argument, whichever instance it is called on
\* and whichever array that instance was constructed with.
C10_GetterEquivalent ==
  \A q \in Queries :
    (res.store[q].status # "none" /\ res.getter[q].status # "none") =>
      res.getter[q] = res.store[q]

\* Both have returned records, the refactored store having been constructed
\* with another array.
C10_Witness ==
  /\ inst.better.videoGames # inst.store.videoGames
  /\ res.store.newerThan.status = "returned"
  /\ res.getter.newerThan.status = "returned"
  /\ res.getter.newerThan.value # <<>>

====
